---- MODULE Spec2Model ----
(***************************************************************************)
(* Model of meazure-agg (src/index.js): a command-line tool that loads or  *)
(* creates a credentials file, logs in to the Meazure service, queries the *)
(* time entries of a date range, aggregates them per project and projects  *)
(* the totals over the week days of the range.                             *)
(*                                                                         *)
(* Representation.  A moment is an integer number of minutes; day d starts *)
(* at d * MinutesPerDay and day 0 is a Sunday.  A JavaScript number that   *)
(* the aggregation computes is an exact rational [k, n, d] (k = "fin") or  *)
(* one of the non-finite values NaN / Infinity; the one place where the    *)
(* binary rounding of a double decides the result (percentComplete) is     *)
(* modelled bit-exactly (FDiv, FMul100, FFloor).                           *)
(***************************************************************************)
EXTENDS Integers, Sequences, FiniteSets, TLC

\* ------------------------------------------------------------------ bounds
MaxEntries == 2
MaxFrom == 6
MaxDay == 68

\* --------------------------------------------------------------- constants
MinutesPerDay == 1440

VARIABLES
  pc,         \* the pending step of the promise chain
  cfgFile,    \* meazure.config.json: <<>> when absent, else <<[readable, text]>>
  doesExist,  \* the value fileExists resolved with
  cfg,        \* the credentials object: <<>> until loaded, then <<object>>
  prompted,   \* whether the user was asked for a username and password
  fsLog,      \* the file-system calls made on the credentials file
  sent,       \* the HTTP requests sent
  resp,       \* the login response received: <<>> or <<response>>
  entries,    \* the body of the query response
  r,          \* the aggregate: <<>> until computed, then <<object>>
  err,        \* the rejection travelling to .catch: <<>> or <<message>>
  stdout,     \* the reports printed by console.log
  stderr,     \* the messages printed by console.error
  argv,       \* [f, t]: the calendar days given by -f and -t
  clock,      \* the current time, in minutes
  utcOffset   \* moment().utcOffset(), in minutes

vars == <<pc, cfgFile, doesExist, cfg, prompted, fsLog, sent, resp, entries, r, err,
          stdout, stderr, argv, clock, utcOffset, resp>>

\* ------------------------------------------------------- JavaScript numbers
RECURSIVE Gcd(_, _)
Gcd(a, b) == IF b = 0 THEN a ELSE Gcd(b, a % b)

Abs(x) == IF x < 0 THEN -x ELSE x

NaN == [k |-> "nan", n |-> 0, d |-> 1]
Infinity(sign) == [k |-> "inf", n |-> sign, d |-> 1]

\* the finite number n/d (d > 0), in lowest terms
Fin(n, d) ==
  LET g == Gcd(Abs(n), d)
  IN  IF n = 0 THEN [k |-> "fin", n |-> 0, d |-> 1]
      ELSE [k |-> "fin", n |-> n \div g, d |-> d \div g]

NInt(i) == Fin(i, 1)

Sign(x) == IF x.n < 0 THEN -1 ELSE 1

\* a + b
NAdd(a, b) ==
  IF a.k = "nan" \/ b.k = "nan" THEN NaN
  ELSE IF a.k = "inf" /\ b.k = "inf"
       THEN (IF a.n = b.n THEN a ELSE NaN)
  ELSE IF a.k = "inf" THEN a
  ELSE IF b.k = "inf" THEN b
  ELSE Fin(a.n * b.d + b.n * a.d, a.d * b.d)

\* a * b
NMul(a, b) ==
  IF a.k = "nan" \/ b.k = "nan" THEN NaN
  ELSE IF a.k = "inf" \/ b.k = "inf"
       THEN (IF a.n = 0 \/ b.n = 0 THEN NaN ELSE Infinity(Sign(a) * Sign(b)))
  ELSE Fin(a.n * b.n, a.d * b.d)

\* a / b ; a division by zero gives Infinity, 0/0 gives NaN
NDiv(a, b) ==
  IF a.k = "nan" \/ b.k = "nan" THEN NaN
  ELSE IF a.k = "inf"
       THEN (IF b.k = "inf" THEN NaN ELSE Infinity(Sign(a) * Sign(b)))
  ELSE IF b.k = "inf" THEN NInt(0)
  ELSE IF b.n = 0 THEN (IF a.n = 0 THEN NaN ELSE Infinity(Sign(a)))
  ELSE Fin(a.n * b.d * Sign(b), a.d * Abs(b.n))

\* Math.floor
NFloor(a) ==
  IF a.k # "fin" THEN a
  ELSE IF a.n >= 0 THEN NInt(a.n \div a.d)
  ELSE NInt(-((-a.n + a.d - 1) \div a.d))

\* ------------------------------------------------------------------ moments
\* moment(s, 'YYYY-MM-DD'): local midnight of calendar day s
ParseDate(day) == day * MinutesPerDay

\* moment().startOf('day')
StartOfDay(m) == (m \div MinutesPerDay) * MinutesPerDay

AddDays(m, n) == m + n * MinutesPerDay

AddMinutes(m, n) == m + n

\* moment#weekday() in the default locale: 0 = Sunday .. 6 = Saturday
Weekday(m) == (m \div MinutesPerDay) % 7

\* -------------------------------------------------------------- aggregation
\* a project name is <<s>> for the string s and <<>> for null; lodash uses it
\* as an object key, which turns null into the key "null"
ToKey(name) == IF name = <<>> THEN "null" ELSE name[1]

\* _.groupBy(entries, 'ProjectName')
groupBy(es) ==
  [key \in {ToKey(es[i].ProjectName) : i \in DOMAIN es} |->
     SelectSeq(es, LAMBDA e : ToKey(e.ProjectName) = key)]

RECURSIVE SumDuration(_)
SumDuration(items) ==
  IF items = <<>> THEN 0
  ELSE items[1].DurationSeconds + SumDuration(Tail(items))

Truthy(x) == x # 0

\* config.rates && config.rates[key], as a condition
HasRate(config, key) ==
  /\ "rates" \in DOMAIN config
  /\ key \in DOMAIN config.rates
  /\ Truthy(config.rates[key])

\* lines 113-118
ResolveRate(config, project) ==
  IF HasRate(config, project) THEN config.rates[project]
  ELSE IF HasRate(config, "_default") THEN config.rates["_default"]
  ELSE 0

\* the callback of _.mapValues
Agg(items, project, config) ==
  LET hours == NDiv(NDiv(NInt(SumDuration(items)), NInt(60)), NInt(60))
  IN  [hours |-> hours, earnings |-> NMul(NInt(ResolveRate(config, project)), hours)]

RECURSIVE SumField(_, _, _)
SumField(f, keys, field) ==
  IF keys = {} THEN NInt(0)
  ELSE LET key == CHOOSE x \in keys : TRUE
       IN  NAdd(f[key][field], SumField(f, keys \ {key}, field))

\* IsToday with the end of the window excluded (isBefore for isSameOrBefore)
IsTodayExclusive(e, now, off) ==
  LET today == StartOfDay(now)
      tomorrow == AddDays(StartOfDay(now), 1)
      m == AddMinutes(e.Date, -off)
  IN  m >= today /\ m < tomorrow

\* the predicate of _.find
IsToday(e, now, off) ==
  LET today == StartOfDay(now)
      tomorrow == AddDays(StartOfDay(now), 1)
      m == AddMinutes(e.Date, -off)
  IN  m >= today /\ m <= tomorrow

aggregateResults(es, config, now, off) ==
  LET byProject == groupBy(es)
      aggregated == [key \in DOMAIN byProject |-> Agg(byProject[key], key, config)]
      total == [hours |-> SumField(aggregated, DOMAIN aggregated, "hours"),
                earnings |-> SumField(aggregated, DOMAIN aggregated, "earnings")]
      found == \E i \in DOMAIN es : IsToday(es[i], now, off)
  IN  [key \in DOMAIN aggregated \cup {"total", "haveEntryToday"} |->
         IF key = "haveEntryToday" THEN found
         ELSE IF key = "total" THEN total
         ELSE aggregated[key]]

\* ---------------------------------------------------- IEEE-754 binary64
\* A positive double is [kind |-> "norm", m, e]: the 53-bit significand m,
\* held as five base-2^13 limbs, least significant first (the top limb is the
\* leading bit), and the value is m * 2^e.
LimbBase == 8192

RECURSIVE ShiftFor(_, _)
\* the least k with a * 2^k >= b
ShiftFor(a, b) == IF a >= b THEN 0 ELSE 1 + ShiftFor(2 * a, b)

\* propagate carries from the low limbs into the top one
Carry(m) ==
  LET c1 == m[1] \div LimbBase
      l2 == m[2] + c1
      c2 == l2 \div LimbBase
      l3 == m[3] + c2
      c3 == l3 \div LimbBase
      l4 == m[4] + c3
      c4 == l4 \div LimbBase
  IN  <<m[1] % LimbBase, l2 % LimbBase, l3 % LimbBase, l4 % LimbBase, m[5] + c4>>

\* a significand that a round-up carried to 2^53 becomes 2^52 with e + 1
Normalize(m, e) ==
  IF m[5] = 2 THEN [kind |-> "norm", m |-> <<0, 0, 0, 0, 1>>, e |-> e + 1]
  ELSE [kind |-> "norm", m |-> m, e |-> e]

\* a / b for integers 0 <= a <= b, rounded to nearest, ties to even
FDiv(a, b) ==
  IF b = 0 THEN [kind |-> "nan", m |-> <<>>, e |-> 0]
  ELSE IF a = 0 THEN [kind |-> "zero", m |-> <<>>, e |-> 0]
  ELSE
    LET k  == ShiftFor(a, b)
        r0 == a * 2^k - b
        d3 == (r0 * LimbBase) \div b
        r1 == (r0 * LimbBase) % b
        d2 == (r1 * LimbBase) \div b
        r2 == (r1 * LimbBase) % b
        d1 == (r2 * LimbBase) \div b
        r3 == (r2 * LimbBase) % b
        d0 == (r3 * LimbBase) \div b
        r4 == (r3 * LimbBase) % b
        up == 2 * r4 > b \/ (2 * r4 = b /\ d0 % 2 = 1)
    IN  Normalize(Carry(<<d0 + (IF up THEN 1 ELSE 0), d1, d2, d3, 1>>), -k - 52)

\* x * 100, rounded to nearest, ties to even
FMul100(x) ==
  IF x.kind # "norm" THEN x
  ELSE
    LET p   == Carry(<<100 * x.m[1], 100 * x.m[2], 100 * x.m[3], 100 * x.m[4], 100 * x.m[5]>>)
        s   == IF p[5] >= 128 THEN 7 ELSE 6
        q   == 2^s
        low == p[1] % q
        up  == low > q \div 2 \/ (low = q \div 2 /\ (p[1] \div q) % 2 = 1)
        t   == Carry(<<p[1] - low + (IF up THEN q ELSE 0), p[2], p[3], p[4], p[5]>>)
        hi  == LimbBase \div q
    IN  Normalize(<<(t[1] \div q) + (t[2] % q) * hi, (t[2] \div q) + (t[3] % q) * hi,
                    (t[3] \div q) + (t[4] % q) * hi, (t[4] \div q) + (t[5] % q) * hi,
                    t[5] \div q>>, x.e + s)

\* Math.floor of a double below 2^14, as a number
FFloor(x) ==
  IF x.kind = "nan" THEN NaN
  ELSE IF x.kind = "zero" THEN NInt(0)
  ELSE IF -x.e >= 53 THEN NInt(0)
  ELSE NInt((x.m[5] * LimbBase + x.m[4]) \div 2^(-x.e - 39))

\* -------------------------------------------------------------- projection
RECURSIVE CountWeekDays(_, _, _)
\* the while loop of lines 160-168: <<weekDays, weekDaysPast>>
CountWeekDays(c, to, now) ==
  IF ~(c <= to) THEN <<0, 0>>
  ELSE LET rest == CountWeekDays(AddDays(c, 1), to, now)
           isWeekDay == Weekday(c) < 6 /\ Weekday(c) > 0
       IN  <<rest[1] + (IF isWeekDay THEN 1 ELSE 0),
             rest[2] + (IF isWeekDay /\ c < now THEN 1 ELSE 0)>>

\* ReferenceNow without the shift of lines 155-157
ReferenceNowIgnoringEntry(res, clk) == StartOfDay(clk)

\* the reference day of lines 153-157
ReferenceNow(res, clk) ==
  IF res["haveEntryToday"] THEN AddDays(StartOfDay(clk), 1) ELSE StartOfDay(clk)

Projections(res, av, clk) ==
  LET cnt == CountWeekDays(ParseDate(av.f), ParseDate(av.t), ReferenceNow(res, clk))
      weekDays == cnt[1]
      weekDaysPast == cnt[2]
      ratioComplete == FDiv(weekDaysPast, weekDays)
      percentComplete == FFloor(FMul100(ratioComplete))
      earningsPerDay == NFloor(NDiv(res["total"].earnings, NInt(weekDaysPast)))
      estimatedEarnings == NFloor(NMul(earningsPerDay, NInt(weekDays)))
      estimatedHours == NMul(NInt(weekDays), NDiv(res["total"].hours, NInt(weekDaysPast)))
  IN  [weekDays |-> weekDays,
       weekDaysPast |-> weekDaysPast,
       percentComplete |-> percentComplete,
       avgEarningsPerDay |-> earningsPerDay,
       avgHoursPerDay |-> NDiv(res["total"].hours, NInt(weekDaysPast)),
       estimatedEarnings |-> estimatedEarnings,
       estimatedHours |-> estimatedHours]

\* addProjections guarded by isAfter instead of isSameOrAfter
addProjectionsStrictGuard(res, av, clk) ==
  IF ParseDate(av.f) > ParseDate(av.t) THEN res
  ELSE [key \in DOMAIN res \cup {"projections"} |->
          IF key = "projections" THEN Projections(res, av, clk) ELSE res[key]]

addProjections(res, av, clk) ==
  IF ParseDate(av.f) >= ParseDate(av.t) THEN res
  ELSE [key \in DOMAIN res \cup {"projections"} |->
          IF key = "projections" THEN Projections(res, av, clk) ELSE res[key]]

\* ------------------------------------------------------------ input domains
Users == {"ann"}
Passwords == {"pw1", "pw2"}

RatesA == [A |-> 10]
RatesCfg == [uname |-> "ann", pword |-> "pw1", rates |-> RatesA]
RatesZero == [A |-> 0, _default |-> 50]
RatesDefault == [_default |-> 50]
RatesBoth == [A |-> 10, _default |-> 50]

Configs ==
  {[uname |-> "ann", pword |-> "pw1"]}
  \cup {[uname |-> "ann", pword |-> "pw1", rates |-> rt] :
          rt \in {RatesA, RatesZero, RatesDefault, RatesBoth}}

\* the text of a file: JSON.stringify output, or something JSON.parse rejects
Stringify(obj) == [json |-> TRUE, value |-> obj]
Garbage == [json |-> FALSE, value |-> [uname |-> "", pword |-> ""]]

Files ==
  {<<>>}
  \cup {<<[readable |-> FALSE, text |-> Stringify(c)]>> : c \in {[uname |-> "ann", pword |-> "pw1"]}}
  \cup {<<[readable |-> TRUE, text |-> Garbage]>>}
  \cup {<<[readable |-> TRUE, text |-> Stringify(c)]>> : c \in Configs}

ProjectNames == {<<"A">>, <<"total">>, <<>>}
Durations == {1800, 3600}
\* the runs of Spec and SpecAgg happen at noon of day 1
Noon == MinutesPerDay + 720
EntryDates == {MinutesPerDay - 480, MinutesPerDay, 2 * MinutesPerDay - 480, 2 * MinutesPerDay}
UtcOffsets == {-480, 0}

Entry == [Date : EntryDates, DurationSeconds : Durations, ProjectName : ProjectNames]

SeqsUpTo(S, n) == UNION {[1..len -> S] : len \in 0..n}

\* the bodies the query may return in the pipeline specification
SomeEntries ==
  {<<>>,
   <<[Date |-> Noon, DurationSeconds |-> 36000, ProjectName |-> <<"A">>]>>,
   <<[Date |-> Noon - 2 * MinutesPerDay, DurationSeconds |-> 3600, ProjectName |-> <<"A">>],
     [Date |-> Noon - 2 * MinutesPerDay, DurationSeconds |-> 1800, ProjectName |-> <<>>]>>}

\* login responses: the request fails, or a response arrives whose body may
\* be missing and may carry an Errors field
LoginResponses ==
  {[failed |-> TRUE, body |-> <<>>],
   [failed |-> FALSE, body |-> <<>>],
   [failed |-> FALSE, body |-> <<[Errors |-> FALSE]>>],
   [failed |-> FALSE, body |-> <<[Errors |-> TRUE]>>]}

\* ----------------------------------------------------------------- pipeline
\* fileExists(cfgFileName) and the branch of lines 29-36
FileExists ==
  /\ pc = "fileExists"
  /\ fsLog' = Append(fsLog, "stat")
  /\ doesExist' = (cfgFile # <<>>)
  /\ pc' = IF doesExist' THEN "readConfigFile" ELSE "promptForCredentials"
  /\ UNCHANGED <<cfgFile, cfg, prompted, sent, entries, r, err, stdout, stderr,
                 argv, clock, utcOffset, resp>>

PromptForCredentials ==
  /\ pc = "promptForCredentials"
  /\ \E uname \in Users, pword \in Passwords :
       cfg' = <<[uname |-> uname, pword |-> pword]>>
  /\ prompted' = TRUE
  /\ pc' = "writeConfigFile"
  /\ UNCHANGED <<cfgFile, doesExist, fsLog, sent, entries, r, err, stdout, stderr,
                 argv, clock, utcOffset, resp>>

WriteConfigFile ==
  /\ pc = "writeConfigFile"
  /\ fsLog' = Append(fsLog, "write")
  /\ \E ok \in BOOLEAN :
       IF ok
       THEN /\ cfgFile' = <<[readable |-> TRUE, text |-> Stringify(cfg[1])]>>
            /\ pc' = "login"
            /\ err' = err
       ELSE /\ cfgFile' = cfgFile
            /\ pc' = "catch"
            /\ err' = <<"EACCES">>
  /\ UNCHANGED <<doesExist, cfg, prompted, sent, entries, r, stdout, stderr,
                 argv, clock, utcOffset, resp>>

\* ReadConfigFile that saves the parsed configuration back to the file
ReadConfigFileAndRewrite ==
  /\ pc = "readConfigFile"
  /\ IF ~cfgFile[1].readable
     THEN /\ err' = <<"EACCES">>
          /\ pc' = "catch"
          /\ cfg' = cfg
          /\ fsLog' = Append(fsLog, "read")
     ELSE IF ~cfgFile[1].text.json
     THEN /\ err' = <<"Unexpected token">>
          /\ pc' = "catch"
          /\ cfg' = cfg
          /\ fsLog' = Append(fsLog, "read")
     ELSE /\ cfg' = <<cfgFile[1].text.value>>
          /\ pc' = "login"
          /\ err' = err
          /\ fsLog' = fsLog \o <<"read", "write">>
  /\ UNCHANGED <<cfgFile, doesExist, prompted, sent, entries, r, stdout, stderr,
                 argv, clock, utcOffset, resp>>

ReadConfigFile ==
  /\ pc = "readConfigFile"
  /\ fsLog' = Append(fsLog, "read")
  /\ IF ~cfgFile[1].readable
     THEN /\ err' = <<"EACCES">>
          /\ pc' = "catch"
          /\ cfg' = cfg
     ELSE IF ~cfgFile[1].text.json
     THEN /\ err' = <<"Unexpected token">>
          /\ pc' = "catch"
          /\ cfg' = cfg
     ELSE /\ cfg' = <<cfgFile[1].text.value>>
          /\ pc' = "login"
          /\ err' = err
  /\ UNCHANGED <<cfgFile, doesExist, prompted, sent, entries, r, stdout, stderr,
                 argv, clock, utcOffset, resp>>

\* login(cfg) up to the request
Login ==
  /\ pc = "login"
  /\ sent' = Append(sent, [uri |-> "Auth/Login", body |-> <<cfg[1].uname, cfg[1].pword>>])
  /\ pc' = "loginThen"
  /\ UNCHANGED <<cfgFile, doesExist, cfg, prompted, fsLog, entries, r, err, stdout,
                 stderr, argv, clock, utcOffset, resp>>

\* LoginThen without the check of body.Errors
LoginThenIgnoringErrors ==
  /\ pc = "loginThen"
  /\ \E rsp \in LoginResponses :
       /\ resp' = <<rsp>>
       /\ IF rsp.failed
          THEN /\ err' = <<"RequestError">>
               /\ pc' = "catch"
          ELSE /\ err' = err
               /\ pc' = "query"
  /\ UNCHANGED <<cfgFile, doesExist, cfg, prompted, fsLog, sent, entries, r, stdout,
                 stderr, argv, clock, utcOffset>>

\* the response handler of lines 62-67
LoginThen ==
  /\ pc = "loginThen"
  /\ \E rsp \in LoginResponses :
       /\ resp' = <<rsp>>
       /\ IF rsp.failed
          THEN /\ err' = <<"RequestError">>
               /\ pc' = "catch"
          ELSE IF rsp.body # <<>> /\ rsp.body[1].Errors
          THEN /\ err' = <<"Invalid Credentials">>
               /\ pc' = "catch"
          ELSE /\ err' = err
               /\ pc' = "query"
  /\ UNCHANGED <<cfgFile, doesExist, cfg, prompted, fsLog, sent, entries, r, stdout,
                 stderr, argv, clock, utcOffset>>

\* query({fromDate, toDate}) up to the request
Query ==
  /\ pc = "query"
  /\ sent' = Append(sent, [uri |-> "Dashboard/RunQuery", body |-> <<argv.f, argv.t>>])
  /\ pc' = "queryThen"
  /\ UNCHANGED <<cfgFile, doesExist, cfg, prompted, fsLog, entries, r, err, stdout,
                 stderr, argv, clock, utcOffset, resp>>

\* the query response arrives, or the request fails
QueryThen ==
  /\ pc = "queryThen"
  /\ \/ /\ err' = <<"RequestError">>
        /\ pc' = "catch"
        /\ entries' = entries
     \/ /\ entries' \in SomeEntries
        /\ pc' = "aggregateResults"
        /\ err' = err
  /\ UNCHANGED <<cfgFile, doesExist, cfg, prompted, fsLog, sent, r, stdout,
                 stderr, argv, clock, utcOffset, resp>>

AggregateResults ==
  /\ pc = "aggregateResults"
  /\ r' = <<aggregateResults(entries, cfg[1], clock, utcOffset)>>
  /\ pc' = "addProjections"
  /\ UNCHANGED <<cfgFile, doesExist, cfg, prompted, fsLog, sent, entries, err, stdout,
                 stderr, argv, clock, utcOffset, resp>>

AddProjections ==
  /\ pc = "addProjections"
  /\ r' = <<addProjections(r[1], argv, clock)>>
  /\ pc' = "print"
  /\ UNCHANGED <<cfgFile, doesExist, cfg, prompted, fsLog, sent, entries, err, stdout,
                 stderr, argv, clock, utcOffset, resp>>

\* line 42
PrintResults ==
  /\ pc = "print"
  /\ stdout' = Append(stdout, [f |-> argv.f, t |-> argv.t, report |-> r[1]])
  /\ pc' = "done"
  /\ UNCHANGED <<cfgFile, doesExist, cfg, prompted, fsLog, sent, entries, r, err,
                 stderr, argv, clock, utcOffset, resp>>

\* lines 44-49
Catch ==
  /\ pc = "catch"
  /\ stderr' = Append(stderr, err[1])
  /\ pc' = "done"
  /\ UNCHANGED <<cfgFile, doesExist, cfg, prompted, fsLog, sent, entries, r, err,
                 stdout, argv, clock, utcOffset, resp>>

\* ---------------------------------------------------------- specifications
\* the whole run, from process start
Init ==
  /\ pc = "fileExists"
  /\ cfgFile \in Files
  /\ doesExist = FALSE
  /\ cfg = <<>>
  /\ prompted = FALSE
  /\ fsLog = <<>>
  /\ sent = <<>>
  /\ resp = <<>>
  /\ entries = <<>>
  /\ r = <<>>
  /\ err = <<>>
  /\ stdout = <<>>
  /\ stderr = <<>>
  /\ argv \in {[f |-> 1, t |-> 5], [f |-> 3, t |-> 3]}
  /\ clock = Noon
  /\ utcOffset = 0

Next ==
  \/ FileExists
  \/ PromptForCredentials
  \/ WriteConfigFile
  \/ ReadConfigFile
  \/ Login
  \/ LoginThen
  \/ Query
  \/ QueryThen
  \/ AggregateResults
  \/ AddProjections
  \/ PrintResults
  \/ Catch

Spec == Init /\ [][Next]_vars

\* a run that logged in with a stored configuration and got its entries
Loaded(c) ==
  /\ cfgFile = <<[readable |-> TRUE, text |-> Stringify(c)]>>
  /\ doesExist = TRUE
  /\ cfg = <<c>>
  /\ prompted = FALSE
  /\ fsLog = <<"stat", "read">>
  /\ sent = <<[uri |-> "Auth/Login", body |-> <<c.uname, c.pword>>],
              [uri |-> "Dashboard/RunQuery", body |-> <<argv.f, argv.t>>]>>
  /\ resp = <<[failed |-> FALSE, body |-> <<>>]>>
  /\ err = <<>>
  /\ stdout = <<>>
  /\ stderr = <<>>

\* aggregateResults over every response of at most MaxEntries entries
InitAgg ==
  /\ pc = "aggregateResults"
  /\ argv = [f |-> 1, t |-> 5]
  /\ clock = Noon
  /\ utcOffset \in UtcOffsets
  /\ entries \in SeqsUpTo(Entry, MaxEntries)
  /\ r = <<>>
  /\ \E c \in Configs : Loaded(c)

NextAgg == AggregateResults

SpecAgg == InitAgg /\ [][NextAgg]_vars

\* addProjections over every range and every position of today
InitProj ==
  /\ pc = "addProjections"
  /\ argv \in [f : 0..MaxFrom, t : 0..MaxDay]
  /\ clock \in {day * MinutesPerDay + 720 : day \in 0..(MaxDay + 1)}
  /\ utcOffset = 0
  /\ entries \in {<<>>} \cup
       {<<[Date |-> clock - back * MinutesPerDay, DurationSeconds |-> 36000,
           ProjectName |-> <<"A">>]>> : back \in {0, 2}}
  /\ r = <<aggregateResults(entries, RatesCfg, clock, utcOffset)>>
  /\ Loaded(RatesCfg)

NextProj == AddProjections

SpecProj == InitProj /\ [][NextProj]_vars

\* -------------------------------------------------------------- properties
\* the aggregate that AggregateResults produced, and its per-project part
Aggregated == pc = "addProjections" /\ r # <<>>
Projects(res) == DOMAIN res \ {"total", "haveEntryToday", "projections"}

\* C1: the result of aggregateResults has total.hours equal to the sum of the
\* hours of its per-project aggregates and total.earnings equal to the sum of
\* their earnings; for no entries there are no per-project aggregates and
\* total is {hours: 0, earnings: 0}.
C1_TotalIsSumOfProjects ==
  Aggregated =>
    /\ r[1]["total"].hours = SumField(r[1], Projects(r[1]), "hours")
    /\ r[1]["total"].earnings = SumField(r[1], Projects(r[1]), "earnings")
    /\ entries = <<>> =>
         /\ Projects(r[1]) = {}
         /\ r[1]["total"] = [hours |-> NInt(0), earnings |-> NInt(0)]

\* the rate the specification resolves: presence decides, not the value
SpecifiedRate(config, project) ==
  IF "rates" \in DOMAIN config /\ project \in DOMAIN config.rates
  THEN config.rates[project]
  ELSE IF "rates" \in DOMAIN config /\ "_default" \in DOMAIN config.rates
  THEN config.rates["_default"]
  ELSE 0

\* C2: the rate applied to a project group is rates[project] whenever the
\* rates mapping has an entry for the project (whatever its value, 0
\* included), otherwise rates._default whenever present, otherwise 0, and the
\* group's earnings are its hours times that rate.
C2_RateByPresence ==
  Aggregated =>
    \A project \in Projects(r[1]) :
      r[1][project].earnings =
        NMul(NInt(SpecifiedRate(cfg[1], project)), r[1][project].hours)

\* the seconds the entries of one project name add up to
RECURSIVE SecondsOf(_, _)
SecondsOf(es, name) ==
  IF es = <<>> THEN 0
  ELSE (IF es[1].ProjectName = name THEN es[1].DurationSeconds ELSE 0)
       + SecondsOf(Tail(es), name)

\* C3: for every project name occurring in the entries (null included) the
\* result holds an aggregate under that name whose hours are the sum of
\* DurationSeconds of that project's entries divided by 3600, alongside the
\* total aggregate and the haveEntryToday flag.
C3_OneAggregatePerProject ==
  Aggregated =>
    /\ {"total", "haveEntryToday"} \subseteq DOMAIN r[1]
    /\ \A i \in DOMAIN entries :
         /\ ToKey(entries[i].ProjectName) \in DOMAIN r[1]
         /\ r[1][ToKey(entries[i].ProjectName)].hours
              = Fin(SecondsOf(entries, entries[i].ProjectName), 3600)

\* an entry whose offset-corrected date lies in [start of today, start of
\* tomorrow], both ends included
InWindow(e) ==
  LET day == clock \div MinutesPerDay
  IN  /\ e.Date - utcOffset >= day * MinutesPerDay
      /\ e.Date - utcOffset <= (day + 1) * MinutesPerDay

\* C4: haveEntryToday is true if and only if at least one entry's date, less
\* the local UTC offset in minutes, lies in the window from the start of
\* today to the start of tomorrow, both ends included.
C4_HaveEntryToday ==
  Aggregated =>
    (r[1]["haveEntryToday"] <=> \E i \in DOMAIN entries : InWindow(entries[i]))

\* the only entry in the window sits exactly on the start of tomorrow
C4_Witness ==
  /\ Aggregated
  /\ r[1]["haveEntryToday"]
  /\ entries # <<>>
  /\ utcOffset # 0
  /\ \A i \in DOMAIN entries :
       entries[i].Date - utcOffset \notin
         ((clock \div MinutesPerDay) * MinutesPerDay)
           .. ((clock \div MinutesPerDay + 1) * MinutesPerDay - 1)

\* C5: when the from date is the same as or later than the to date,
\* addProjections returns its input unchanged: no projections key is added
\* and the aggregates, total and haveEntryToday keep their values.
C5_GuardReturnsInput ==
  [][(pc = "addProjections" /\ argv.f >= argv.t)
       => (r' = r /\ "projections" \notin DOMAIN r'[1])]_vars

C5_Witness ==
  /\ pc = "print"
  /\ argv.f = argv.t
  /\ "projections" \notin DOMAIN r[1]
  /\ r[1]["total"].earnings = NInt(100)

Projected == pc = "print" /\ "projections" \in DOMAIN r[1]

\* C6: whenever addProjections attaches projections, percentComplete is an
\* integer between 0 and 100 inclusive.
C6_PercentInRange ==
  Projected =>
    LET pct == r[1]["projections"].percentComplete
    IN  pct.k = "fin" /\ pct.d = 1 /\ pct.n >= 0 /\ pct.n <= 100

\* C7: with weekDays = W, weekDaysPast = E > 0 and total earnings T,
\* avgEarningsPerDay = floor(T / E), estimatedEarnings =
\* floor(avgEarningsPerDay * W) and percentComplete = floor(100 * E / W).
C7_ProjectionArithmetic ==
  (Projected /\ r[1]["projections"].weekDaysPast > 0) =>
    LET p == r[1]["projections"]
        T == r[1]["total"].earnings
    IN  /\ p.avgEarningsPerDay = NInt(T.n \div (T.d * p.weekDaysPast))
        /\ p.estimatedEarnings = NInt(p.avgEarningsPerDay.n * p.weekDays)
        /\ p.percentComplete = NInt((100 * p.weekDaysPast) \div p.weekDays)

Requested(uri) == \E i \in DOMAIN sent : sent[i].uri = uri

\* C8: once a stage has failed, no later stage runs and the report is never
\* printed; a login response with Errors raises 'Invalid Credentials' and no
\* query request is sent.
C8_FailureAborts ==
  /\ [](err # <<>> => stdout = <<>>)
  /\ [][err # <<>> =>
          /\ pc' = "done"
          /\ UNCHANGED <<cfgFile, cfg, prompted, fsLog, sent, resp, entries, r, stdout>>]_vars
  /\ []((resp # <<>> /\ ~resp[1].failed /\ resp[1].body # <<>> /\ resp[1].body[1].Errors)
          => (err = <<"Invalid Credentials">> /\ ~Requested("Dashboard/RunQuery")))

C8_Witness ==
  /\ pc = "done"
  /\ resp # <<>>
  /\ resp[1].body # <<>>
  /\ resp[1].body[1].Errors
  /\ stderr = <<"Invalid Credentials">>
  /\ stdout = <<>>

Did(op) == \E i \in DOMAIN fsLog : fsLog[i] = op

IsWeekDay(day) == day % 7 \in 1..5

\* the calendar day addProjections compares the days of the range with
ReferenceDay ==
  IF r[1]["haveEntryToday"] THEN clock \div MinutesPerDay + 1
  ELSE clock \div MinutesPerDay

\* C10: weekDays is the number of days from the from date to the to date
\* inclusive that are Monday to Friday, weekDaysPast the number of those
\* strictly before the reference day (today, or tomorrow when haveEntryToday
\* holds); today counts as elapsed exactly when it is a week day of the range
\* and haveEntryToday is true.
C10_WeekDayCounts ==
  Projected =>
    LET p == r[1]["projections"]
        today == clock \div MinutesPerDay
        weekDaysOfRange == {day \in argv.f..argv.t : IsWeekDay(day)}
    IN  /\ p.weekDays = Cardinality(weekDaysOfRange)
        /\ p.weekDaysPast = Cardinality({day \in weekDaysOfRange : day < ReferenceDay})
        /\ (p.weekDaysPast = Cardinality({day \in weekDaysOfRange : day < today}) + 1)
             <=> (today \in weekDaysOfRange /\ r[1]["haveEntryToday"])
        /\ p.weekDaysPast >= Cardinality({day \in weekDaysOfRange : day < today})

C10_Witness ==
  /\ Projected
  /\ r[1]["haveEntryToday"]
  /\ clock \div MinutesPerDay \in argv.f..argv.t
  /\ IsWeekDay(clock \div MinutesPerDay)
  /\ r[1]["projections"].weekDaysPast = 3
  /\ r[1]["projections"].weekDays = 5

====
